---- MODULE Spec2Model ----
(***************************************************************************)
(* A model of twitch_irc_server/send_message.py: the command-line client   *)
(* that posts {channel, username, message} as JSON to the spoof IRC        *)
(* server and turns the reply into one outcome line and an exit code.      *)
(*                                                                         *)
(* Text is a sequence of one-character strings.  A non-ASCII code point is *)
(* written by its name ("U+00E9"), a non-ASCII byte by its hex ("0xC3").   *)
(***************************************************************************)
EXTENDS Integers, Sequences, FiniteSets, TLC

(***************************************************************************)
(* Characters                                                              *)
(***************************************************************************)
QUOTE == "\""
BACKSLASH == "\\"
LF == "\n"
E_ACUTE == "U+00E9"

NonAsciiChars == {E_ACUTE}
NonAsciiBytes == {"0xC3", "0xA9", "0xFF"}
Whitespace == {" ", "\n", "\t", "\r"}
Digits == {"0", "1", "2", "3", "4", "5", "6", "7", "8", "9"}

DigitValue(d) ==
    CASE d = "0" -> 0 [] d = "1" -> 1 [] d = "2" -> 2 [] d = "3" -> 3
      [] d = "4" -> 4 [] d = "5" -> 5 [] d = "6" -> 6 [] d = "7" -> 7
      [] d = "8" -> 8 [] d = "9" -> 9


(***************************************************************************)
(* str.encode("utf-8") and bytes.decode("utf-8")                           *)
(***************************************************************************)
Utf8Bytes(c) == IF c = E_ACUTE THEN <<"0xC3", "0xA9">> ELSE <<c>>

RECURSIVE Utf8EncodeFrom(_, _)
Utf8EncodeFrom(text, i) ==
    IF i > Len(text) THEN <<>> ELSE Utf8Bytes(text[i]) \o Utf8EncodeFrom(text, i + 1)

Utf8Encode(text) == Utf8EncodeFrom(text, 1)

RECURSIVE Utf8DecodeFrom(_, _, _)
Utf8DecodeFrom(bytes, i, acc) ==
    IF i > Len(bytes) THEN [ok |-> TRUE, text |-> acc]
    ELSE IF bytes[i] \notin NonAsciiBytes
         THEN Utf8DecodeFrom(bytes, i + 1, Append(acc, bytes[i]))
    ELSE IF bytes[i] = "0xC3" /\ i < Len(bytes) /\ bytes[i + 1] = "0xA9"
         THEN Utf8DecodeFrom(bytes, i + 2, Append(acc, E_ACUTE))
    ELSE [ok |-> FALSE, text |-> <<>>]

\* ok = FALSE stands for UnicodeDecodeError
Utf8DecodeBytes(bytes) == Utf8DecodeFrom(bytes, 1, <<>>)

(***************************************************************************)
(* json.dumps with its defaults: ensure_ascii, separators ", " and ": "    *)
(***************************************************************************)
Hex4(c) == CASE c = E_ACUTE -> <<"0", "0", "e", "9">>

\* EscapeChar without the rule for the backslash
EscapeCharNoBackslash(c) ==
    CASE c = QUOTE -> <<BACKSLASH, QUOTE>>
      [] c = LF -> <<BACKSLASH, "n">>
      [] c \in NonAsciiChars -> <<BACKSLASH, "u">> \o Hex4(c)
      [] OTHER -> <<c>>

\* what json.dumps writes for one character of a string
EscapeChar(c) ==
    CASE c = QUOTE -> <<BACKSLASH, QUOTE>>
      [] c = BACKSLASH -> <<BACKSLASH, BACKSLASH>>
      [] c = LF -> <<BACKSLASH, "n">>
      [] c \in NonAsciiChars -> <<BACKSLASH, "u">> \o Hex4(c)
      [] OTHER -> <<c>>

RECURSIVE EscapeFrom(_, _)
EscapeFrom(s, i) ==
    IF i > Len(s) THEN <<>> ELSE EscapeChar(s[i]) \o EscapeFrom(s, i + 1)

EncodeString(s) == <<QUOTE>> \o EscapeFrom(s, 1) \o <<QUOTE>>

EncodeItem(item) == EncodeString(item[1]) \o <<":", " ">> \o EncodeString(item[2])

RECURSIVE JoinItems(_)
JoinItems(items) ==
    IF items = <<>> THEN <<>>
    ELSE IF Len(items) = 1 THEN EncodeItem(items[1])
    ELSE EncodeItem(items[1]) \o <<",", " ">> \o JoinItems(Tail(items))

\* a dict of str -> str, given as its items in insertion order
Dumps(items) == <<"{">> \o JoinItems(items) \o <<"}">>

(***************************************************************************)
(* json.loads on a str: a recursive-descent reading of the JSON text.      *)
(* A value is a record tagged by its Python type: "str", "int", "bool",    *)
(* "null" (None), "list", "dict" (items in insertion order).  The number   *)
(* grammar is cut to integers and the \u table to the model's characters.  *)
(***************************************************************************)
JStr(v) == [t |-> "str", v |-> v]
JInt(n) == [t |-> "int", v |-> n]
JBool(b) == [t |-> "bool", v |-> b]
JNull == [t |-> "null", v |-> <<>>]
JList(elems) == [t |-> "list", v |-> elems]
JDict(items) == [t |-> "dict", v |-> items]

\* ok = FALSE stands for JSONDecodeError
ParseFail == [ok |-> FALSE, val |-> JNull, pos |-> 0]
ParseOk(val, pos) == [ok |-> TRUE, val |-> val, pos |-> pos]

RECURSIVE SkipWs(_, _)
SkipWs(s, i) ==
    IF i <= Len(s) /\ s[i] \in Whitespace THEN SkipWs(s, i + 1) ELSE i

StartsWith(s, i, lit) ==
    /\ i + Len(lit) - 1 <= Len(s)
    /\ SubSeq(s, i, i + Len(lit) - 1) = lit

UnicodeEscapes ==
    { <<"0", "0", "e", "9">>, <<"0", "0", "6", "1">>, <<"0", "0", "2", "0">>,
      <<"0", "0", "2", "2">>, <<"0", "0", "5", "c">>, <<"0", "0", "0", "a">> }

CodePoint(hex) ==
    CASE hex = <<"0", "0", "e", "9">> -> E_ACUTE
      [] hex = <<"0", "0", "6", "1">> -> "a"
      [] hex = <<"0", "0", "2", "0">> -> " "
      [] hex = <<"0", "0", "2", "2">> -> QUOTE
      [] hex = <<"0", "0", "5", "c">> -> BACKSLASH
      [] hex = <<"0", "0", "0", "a">> -> LF

ControlChars == {"\n", "\t", "\r"}

\* i is the place after the opening quote
RECURSIVE ScanString(_, _, _)
ScanString(s, i, acc) ==
    IF i > Len(s) THEN ParseFail
    ELSE IF s[i] = QUOTE THEN ParseOk(JStr(acc), i + 1)
    ELSE IF s[i] = BACKSLASH THEN
        IF i + 1 > Len(s) THEN ParseFail
        ELSE IF s[i + 1] \in {QUOTE, BACKSLASH, "/"}
             THEN ScanString(s, i + 2, Append(acc, s[i + 1]))
        ELSE IF s[i + 1] = "n" THEN ScanString(s, i + 2, Append(acc, "\n"))
        ELSE IF s[i + 1] = "t" THEN ScanString(s, i + 2, Append(acc, "\t"))
        ELSE IF s[i + 1] = "r" THEN ScanString(s, i + 2, Append(acc, "\r"))
        ELSE IF s[i + 1] = "u" /\ i + 5 <= Len(s)
                /\ SubSeq(s, i + 2, i + 5) \in UnicodeEscapes
             THEN ScanString(s, i + 6, Append(acc, CodePoint(SubSeq(s, i + 2, i + 5))))
        ELSE ParseFail
    ELSE IF s[i] \in ControlChars THEN ParseFail
    ELSE ScanString(s, i + 1, Append(acc, s[i]))

RECURSIVE ScanDigits(_, _, _)
ScanDigits(s, i, n) ==
    IF i <= Len(s) /\ s[i] \in Digits
    THEN ScanDigits(s, i + 1, 10 * n + DigitValue(s[i]))
    ELSE [n |-> n, pos |-> i]

ParseNumber(s, i) ==
    LET neg == s[i] = "-"
        j == IF neg THEN i + 1 ELSE i
    IN  IF j > Len(s) \/ s[j] \notin Digits THEN ParseFail
        ELSE IF s[j] = "0" THEN ParseOk(JInt(0), j + 1)
        ELSE LET d == ScanDigits(s, j, 0)
             IN  ParseOk(JInt(IF neg THEN 0 - d.n ELSE d.n), d.pos)

\* d[key] = val on a dict: a key already there keeps its place
RECURSIVE DictSet(_, _, _)
DictSet(items, key, val) ==
    IF items = <<>> THEN << <<key, val>> >>
    ELSE IF Head(items)[1] = key THEN << <<key, val>> >> \o Tail(items)
    ELSE <<Head(items)>> \o DictSet(Tail(items), key, val)

RECURSIVE ParseValue(_, _)
RECURSIVE ParseMembers(_, _, _)
RECURSIVE ParseElements(_, _, _)

\* i is at the first character of a member (whitespace skipped)
ParseMembers(s, i, acc) ==
    IF i > Len(s) \/ s[i] # QUOTE THEN ParseFail
    ELSE LET k == ScanString(s, i + 1, <<>>)
         IN  IF ~k.ok THEN ParseFail
             ELSE LET c == SkipWs(s, k.pos)
                  IN  IF c > Len(s) \/ s[c] # ":" THEN ParseFail
                      ELSE LET v == ParseValue(s, SkipWs(s, c + 1))
                           IN  IF ~v.ok THEN ParseFail
                               ELSE LET e == SkipWs(s, v.pos)
                                        items == DictSet(acc, k.val.v, v.val)
                                    IN  IF e > Len(s) THEN ParseFail
                                        ELSE IF s[e] = "}" THEN ParseOk(JDict(items), e + 1)
                                        ELSE IF s[e] = ","
                                             THEN ParseMembers(s, SkipWs(s, e + 1), items)
                                        ELSE ParseFail

\* i is at the first character of an element (whitespace skipped)
ParseElements(s, i, acc) ==
    LET v == ParseValue(s, i)
    IN  IF ~v.ok THEN ParseFail
        ELSE LET e == SkipWs(s, v.pos)
                 elems == Append(acc, v.val)
             IN  IF e > Len(s) THEN ParseFail
                 ELSE IF s[e] = "]" THEN ParseOk(JList(elems), e + 1)
                 ELSE IF s[e] = "," THEN ParseElements(s, SkipWs(s, e + 1), elems)
                 ELSE ParseFail

ParseValue(s, i) ==
    IF i > Len(s) THEN ParseFail
    ELSE IF s[i] = QUOTE THEN ScanString(s, i + 1, <<>>)
    ELSE IF s[i] = "{" THEN
        LET j == SkipWs(s, i + 1)
        IN  IF j <= Len(s) /\ s[j] = "}" THEN ParseOk(JDict(<<>>), j + 1)
            ELSE ParseMembers(s, j, <<>>)
    ELSE IF s[i] = "[" THEN
        LET j == SkipWs(s, i + 1)
        IN  IF j <= Len(s) /\ s[j] = "]" THEN ParseOk(JList(<<>>), j + 1)
            ELSE ParseElements(s, j, <<>>)
    ELSE IF StartsWith(s, i, <<"t", "r", "u", "e">>) THEN ParseOk(JBool(TRUE), i + 4)
    ELSE IF StartsWith(s, i, <<"f", "a", "l", "s", "e">>) THEN ParseOk(JBool(FALSE), i + 5)
    ELSE IF StartsWith(s, i, <<"n", "u", "l", "l">>) THEN ParseOk(JNull, i + 4)
    ELSE IF s[i] = "-" \/ s[i] \in Digits THEN ParseNumber(s, i)
    ELSE ParseFail

\* the whole text is one value between optional whitespace
LoadsText(s) ==
    LET r == ParseValue(s, SkipWs(s, 1))
    IN  IF r.ok /\ SkipWs(s, r.pos) = Len(s) + 1 THEN r ELSE ParseFail

(***************************************************************************)
(* Python values as the program uses them                                  *)
(***************************************************************************)
K_channel ==
    <<"c", "h", "a", "n", "n", "e", "l">>

K_username ==
    <<"u", "s", "e", "r", "n", "a", "m", "e">>

K_message ==
    <<"m", "e", "s", "s", "a", "g", "e">>

K_success ==
    <<"s", "u", "c", "c", "e", "s", "s">>

DEFAULT_SENT ==
    <<"M", "e", "s", "s", "a", "g", "e", " ", "s", "e", "n", "t", " ", "s",
      "u", "c", "c", "e", "s", "s", "f", "u", "l", "l", "y">>

DEFAULT_FAILED ==
    <<"U", "n", "k", "n", "o", "w", "n", " ", "e", "r", "r", "o", "r">>

PY_NONE ==
    <<"N", "o", "n", "e">>

PY_TRUE ==
    <<"T", "r", "u", "e">>

PY_FALSE ==
    <<"F", "a", "l", "s", "e">>

DigitChar(n) ==
    CASE n = 0 -> "0" [] n = 1 -> "1" [] n = 2 -> "2" [] n = 3 -> "3"
      [] n = 4 -> "4" [] n = 5 -> "5" [] n = 6 -> "6" [] n = 7 -> "7"
      [] n = 8 -> "8" [] n = 9 -> "9"

RECURSIVE NatStr(_)
NatStr(n) ==
    IF n < 10 THEN <<DigitChar(n)>> ELSE Append(NatStr(n \div 10), DigitChar(n % 10))

IntStr(n) == IF n < 0 THEN <<"-">> \o NatStr(0 - n) ELSE NatStr(n)

\* str(value), what an f-string shows; the repr of a list or dict is one token
PyStr(val) ==
    CASE val.t = "str" -> val.v
      [] val.t = "null" -> PY_NONE
      [] val.t = "bool" -> (IF val.v THEN PY_TRUE ELSE PY_FALSE)
      [] val.t = "int" -> IntStr(val.v)
      [] val.t = "list" -> <<"<repr of list>">>
      [] val.t = "dict" -> <<"<repr of dict>">>

\* bool(value), what `if value:` tests
Truthy(val) ==
    CASE val.t = "bool" -> val.v
      [] val.t = "null" -> FALSE
      [] val.t = "int" -> val.v # 0
      [] val.t \in {"str", "list", "dict"} -> Len(val.v) > 0

RECURSIVE ItemsHave(_, _)
ItemsHave(items, key) ==
    IF items = <<>> THEN FALSE
    ELSE IF Head(items)[1] = key THEN TRUE
    ELSE ItemsHave(Tail(items), key)

RECURSIVE ItemsGet(_, _, _)
ItemsGet(items, key, default) ==
    IF items = <<>> THEN default
    ELSE IF Head(items)[1] = key THEN Head(items)[2]
    ELSE ItemsGet(Tail(items), key, default)

\* dict.get(key, default); only a dict has it (AttributeError otherwise)
HasGet(val) == val.t = "dict"

DictGet(val, key, default) == ItemsGet(val.v, key, default)

(***************************************************************************)
(* Exceptions: the classes this run can raise and their base classes       *)
(***************************************************************************)
Base(cls) ==
    CASE cls = "HTTPError" -> "URLError"
      [] cls = "URLError" -> "OSError"
      [] cls = "RemoteDisconnected" -> "ConnectionResetError"
      [] cls = "ConnectionResetError" -> "ConnectionError"
      [] cls = "ConnectionError" -> "OSError"
      [] cls = "OSError" -> "Exception"
      [] cls = "JSONDecodeError" -> "ValueError"
      [] cls = "UnicodeDecodeError" -> "UnicodeError"
      [] cls = "UnicodeError" -> "ValueError"
      [] cls = "ValueError" -> "Exception"
      [] cls = "AttributeError" -> "Exception"
      [] cls = "Exception" -> "BaseException"
      [] OTHER -> "object"

RECURSIVE IsInstance(_, _)
IsInstance(cls, target) ==
    IF cls = target THEN TRUE
    ELSE IF cls \in {"BaseException", "object"} THEN FALSE
    ELSE IsInstance(Base(cls), target)

NoExc == [cls |-> "none", code |-> 0, reason |-> <<>>]
Exc(cls, code, reason) == [cls |-> cls, code |-> code, reason |-> reason]

\* the clauses with URLError before HTTPError, without the JSONDecodeError
\* clause, and without the catch-all
ExceptClausesUrlFirst == <<"URLError", "HTTPError", "JSONDecodeError", "Exception">>

ExceptClausesNoJson == <<"HTTPError", "URLError", "Exception">>

ExceptClausesNoCatchAll == <<"HTTPError", "URLError", "JSONDecodeError">>

\* the except clauses of send_message, in source order
ExceptClauses == <<"HTTPError", "URLError", "JSONDecodeError", "Exception">>

RECURSIVE FirstMatch(_, _, _)
FirstMatch(clauses, cls, i) ==
    IF i > Len(clauses) THEN 0
    ELSE IF IsInstance(cls, clauses[i]) THEN i
    ELSE FirstMatch(clauses, cls, i + 1)

\* the clause that handles an exception of class cls ("" when none does)
Handler(cls) ==
    LET i == FirstMatch(ExceptClauses, cls, 1)
    IN  IF i = 0 THEN "" ELSE ExceptClauses[i]

(***************************************************************************)
(* Output lines: the marker the line starts with and the rest of its text  *)
(***************************************************************************)
SUCCESS_MARK == "U+2705"
FAILURE_MARK == "U+274C"
NO_MARK == ""

Line(marker, text) == [marker |-> marker, text |-> text]

UsageLines ==
    << Line(NO_MARK, <<"Usage: python send_message.py <channel> <username> <message>">>),
       Line(NO_MARK, <<>>),
       Line(NO_MARK, <<"Example:">>),
       Line(NO_MARK, <<"  python send_message.py mychannel viewer123 'Testing the API'">>),
       Line(NO_MARK, <<>>),
       Line(NO_MARK, <<"Note: Make sure the spoof IRC server is running first.">>) >>

StatusLine(c, u, m) ==
    Line(NO_MARK, <<"Sending message to #">> \o c \o <<" from ">> \o u \o <<": ">> \o m)

SentLine(json) ==
    Line(SUCCESS_MARK, PyStr(DictGet(json, K_message, JStr(DEFAULT_SENT))))

\* FailedLine without the marker, and with None as the default
FailedLineUnmarked(json) ==
    Line(NO_MARK, <<"Failed: ">> \o PyStr(DictGet(json, K_message, JStr(DEFAULT_FAILED))))

FailedLineNoDefault(json) ==
    Line(FAILURE_MARK, <<"Failed: ">> \o PyStr(DictGet(json, K_message, JNull)))

FailedLine(json) ==
    Line(FAILURE_MARK, <<"Failed: ">> \o PyStr(DictGet(json, K_message, JStr(DEFAULT_FAILED))))

SERVER_HINT == "Make sure the spoof IRC server is running on localhost:8080"

\* HandlerLines without the second line of the URLError clause
HandlerLinesNoHint(clause, e) ==
    CASE clause = "HTTPError" ->
            << Line(FAILURE_MARK, <<"HTTP Error ">> \o IntStr(e.code) \o <<": ">> \o e.reason) >>
      [] clause = "URLError" ->
            << Line(FAILURE_MARK, <<"Connection Error: ">> \o e.reason) >>
      [] clause = "JSONDecodeError" ->
            << Line(FAILURE_MARK, <<"JSON Error: ">> \o e.reason) >>
      [] clause = "Exception" ->
            << Line(FAILURE_MARK, <<"Unexpected Error: ">> \o e.reason) >>

\* what the except clause prints for the exception e it caught
HandlerLines(clause, e) ==
    CASE clause = "HTTPError" ->
            << Line(FAILURE_MARK, <<"HTTP Error ">> \o IntStr(e.code) \o <<": ">> \o e.reason) >>
      [] clause = "URLError" ->
            << Line(FAILURE_MARK, <<"Connection Error: ">> \o e.reason),
               Line(NO_MARK, <<SERVER_HINT>>) >>
      [] clause = "JSONDecodeError" ->
            << Line(FAILURE_MARK, <<"JSON Error: ">> \o e.reason) >>
      [] clause = "Exception" ->
            << Line(FAILURE_MARK, <<"Unexpected Error: ">> \o e.reason) >>

(***************************************************************************)
(* The request                                                             *)
(***************************************************************************)
API_BASE_URL == "http://127.0.0.1:8080"
SEND_MESSAGE_ENDPOINT == <<API_BASE_URL, "/send_message">>

\* the payload dict, its items in insertion order
Payload(c, u, m) == << <<K_channel, c>>, <<K_username, u>>, <<K_message, m>> >>

EncodeBody(c, u, m) == Utf8Encode(Dumps(Payload(c, u, m)))

NoRequest == [method |-> "", url |-> <<>>, data |-> <<>>, content_type |-> "",
              content_length |-> <<>>]

Request(data) ==
    [method |-> "POST", url |-> SEND_MESSAGE_ENDPOINT, data |-> data,
     content_type |-> "application/json", content_length |-> IntStr(Len(data))]

\* the request urllib issues itself when it follows a redirect
RedirectRequest(location) ==
    [method |-> "GET", url |-> location, data |-> <<>>, content_type |-> "",
     content_length |-> <<>>]

(***************************************************************************)
(* The server's side: what it can answer                                   *)
(***************************************************************************)
Quoted(chars) == <<QUOTE>> \o chars \o <<QUOTE>>
Member(key, valueText) == Quoted(key) \o <<":", " ">> \o valueText
T_TRUE == <<"t", "r", "u", "e">>
T_FALSE == <<"f", "a", "l", "s", "e">>
T_NULL == <<"n", "u", "l", "l">>
T_OK == Quoted(<<"o", "k">>)
T_NO == Quoted(<<"n", "o">>)

Obj1(m1) == <<"{">> \o m1 \o <<"}">>
Obj2(m1, m2) == <<"{">> \o m1 \o <<",", " ">> \o m2 \o <<"}">>

\* response bodies, as bytes
ResponseBodies ==
    { Obj2(Member(K_success, T_TRUE), Member(K_message, T_OK)),
      Obj1(Member(K_success, T_TRUE)),
      Obj2(Member(K_success, T_FALSE), Member(K_message, T_NO)),
      Obj1(Member(K_success, T_FALSE)),
      Obj1(Member(K_message, T_OK)),
      <<"{", "}">>,
      Obj1(Member(K_success, <<"1">>)),
      Obj1(Member(K_success, <<"0">>)),
      Obj1(Member(K_success, T_NO)),
      Obj2(Member(K_success, T_NULL), Member(K_message, T_NULL)),
      Obj2(Member(K_success, T_TRUE), Member(K_message, Quoted(<<"0xC3", "0xA9">>))),
      <<"[", "]">>,
      <<"[", "1", "]">>,
      T_NULL,
      T_OK,
      <<>>,
      <<"o", "o", "p", "s">>,
      <<"{">> \o Member(K_success, <<"t", "r", "u">>),
      <<"0xFF">>,
      Quoted(<<"0xC3">>) }

Statuses == {200, 201, 302, 307, 404, 500}

ReasonPhrase(status) ==
    CASE status = 200 -> "OK"
      [] status = 201 -> "Created"
      [] status = 302 -> "Found"
      [] status = 307 -> "Temporary Redirect"
      [] status = 404 -> "Not Found"
      [] status = 500 -> "Internal Server Error"

REDIRECT_TARGET == <<API_BASE_URL, "/elsewhere">>

NoResponse == [status |-> 0, location |-> FALSE, body |-> <<>>]

\* why a connection can fail before any response (URLError.reason)
ConnectFailures ==
    { "[Errno 111] Connection refused",
      "[Errno -2] Name or service not known",
      "[Errno 101] Network is unreachable",
      "[Errno 110] Connection timed out" }

(***************************************************************************)
(* urllib.request.urlopen with the default opener: a 2xx response is       *)
(* returned; 301, 302, 303 (and 307, 308 of a GET) with a Location header  *)
(* are followed by a GET, up to the limit; any other status raises         *)
(* HTTPError.                                                              *)
(***************************************************************************)
Is2xx(status) == 200 <= status /\ status < 300

Redirects(method, status, location) ==
    /\ location
    /\ \/ status \in {301, 302, 303}
       \/ status \in {307, 308} /\ method = "GET"

\* the bodies sent with a status that is not 2xx
ErrorBodies ==
    { Obj2(Member(K_success, T_TRUE), Member(K_message, T_OK)),
      <<"o", "o", "p", "s">> }

\* status line and Location header of an answer
ResponseHeads ==
    { [status |-> st, location |-> loc] :
        st \in Statuses, loc \in BOOLEAN } \
    { [status |-> st, location |-> TRUE] : st \in {200, 201, 404, 500} }

BodiesFor(status) == IF Is2xx(status) THEN ResponseBodies ELSE ErrorBodies

REDIRECT_LOOP_MSG ==
    "The HTTP server returned a redirect error that would lead to an infinite loop."

(***************************************************************************)
(* Bounds of the model                                                     *)
(***************************************************************************)
\* command-line arguments after the script name
MaxArgs == 4
\* redirects urllib follows before it gives up (max_redirections)
MaxFollow == 2
\* characters of channel, username and message together, in SpecJson
MaxPayloadChars == 4

SCRIPT == <<"send_message.py">>
ArgStrings == { <<"a">>, <<QUOTE, " ">> }
ArgVectors == UNION { [1..n -> ArgStrings] : n \in 0..MaxArgs }
Alphabet == {"a", " ", QUOTE, BACKSLASH, LF, E_ACUTE}

(***************************************************************************)
(* The conversions on the values of the main specification are computed    *)
(* once and looked up afterwards; on any other value they are computed in  *)
(* place.  The results are the same either way.                            *)
(***************************************************************************)
DecodeMemo == [b \in ResponseBodies \cup ErrorBodies |-> Utf8DecodeBytes(b)]

Utf8Decode(bytes) ==
    IF bytes \in DOMAIN DecodeMemo THEN DecodeMemo[bytes] ELSE Utf8DecodeBytes(bytes)

LoadsMemo ==
    [s \in { DecodeMemo[b].text : b \in { x \in DOMAIN DecodeMemo : DecodeMemo[x].ok } }
        |-> LoadsText(s)]

Loads(s) == IF s \in DOMAIN LoadsMemo THEN LoadsMemo[s] ELSE LoadsText(s)

JsonDataMemo ==
    [a \in ArgStrings \X ArgStrings \X ArgStrings |-> EncodeBody(a[1], a[2], a[3])]

JsonData(c, u, m) ==
    IF <<c, u, m>> \in DOMAIN JsonDataMemo
    THEN JsonDataMemo[<<c, u, m>>] ELSE EncodeBody(c, u, m)

(***************************************************************************)
(* State                                                                   *)
(***************************************************************************)
VARIABLES
    sys_argv,       \* sys.argv
    pc,             \* where the run is
    events,         \* what the run shows: lines printed, requests issued,
                    \* answers received or connections lost, the exit
    channel, username, message,     \* main's locals
    json_data, req,                 \* send_message's locals
    redirects,      \* redirects followed inside urlopen
    response,       \* the response urlopen returned
    response_data, response_json,
    exc,            \* the exception raised inside the try block
    success,        \* send_message's return value
    exit_code       \* -1 while the process runs

vars == <<sys_argv, pc, events, channel, username, message, json_data, req,
          redirects, response, response_data, response_json, exc, success,
          exit_code>>

PrintEv(line) == [type |-> "print", line |-> line]
RequestEv(r) == [type |-> "request", req |-> r]
ResponseEv(head, body) == [type |-> "response", head |-> head, body |-> body]
ConnectFailedEv(reason) == [type |-> "connect_failed", reason |-> reason]
DroppedEv == [type |-> "dropped"]
TracebackEv(e) == [type |-> "traceback", exc |-> e]
ExitEv(code) == [type |-> "exit", code |-> code]

Prints(lines) == [i \in 1..Len(lines) |-> PrintEv(lines[i])]

Locals0 ==
    /\ pc = "main"
    /\ events = <<>>
    /\ channel = <<>> /\ username = <<>> /\ message = <<>>
    /\ json_data = <<>>
    /\ req = NoRequest
    /\ redirects = 0
    /\ response = NoResponse
    /\ response_data = <<>>
    /\ response_json = JNull
    /\ exc = NoExc
    /\ success = FALSE
    /\ exit_code = -1

Init ==
    /\ \E args \in ArgVectors : sys_argv = <<SCRIPT>> \o args
    /\ Locals0

(***************************************************************************)
(* main                                                                    *)
(***************************************************************************)
\* the test as `< 4`
WrongArgCountAtLeast(argv) == Len(argv) < 4

WrongArgCount(argv) == Len(argv) # 4

\* sys.exit(0) whatever send_message returned
ExitStatusAlwaysZero(ok) == 0

ExitStatus(ok) == IF ok THEN 0 ELSE 1

Main ==
    /\ pc = "main"
    /\ IF WrongArgCount(sys_argv)
       THEN /\ events' = events \o Prints(UsageLines) \o <<ExitEv(1)>>
            /\ exit_code' = 1
            /\ pc' = "exited"
            /\ UNCHANGED <<channel, username, message>>
       ELSE /\ channel' = sys_argv[2]
            /\ username' = sys_argv[3]
            /\ message' = sys_argv[4]
            /\ events' = Append(events,
                            PrintEv(StatusLine(sys_argv[2], sys_argv[3], sys_argv[4])))
            /\ pc' = "prepare"
            /\ UNCHANGED exit_code
    /\ UNCHANGED <<sys_argv, json_data, req, redirects, response, response_data,
                   response_json, exc, success>>

Exit ==
    /\ pc = "return"
    /\ exit_code' = ExitStatus(success)
    /\ events' = Append(events, ExitEv(ExitStatus(success)))
    /\ pc' = "exited"
    /\ UNCHANGED <<sys_argv, channel, username, message, json_data, req, redirects,
                   response, response_data, response_json, exc, success>>

(***************************************************************************)
(* send_message                                                            *)
(***************************************************************************)
Prepare ==
    /\ pc = "prepare"
    /\ \E data \in {JsonData(channel, username, message)} :
          /\ json_data' = data
          /\ req' = Request(data)
    /\ pc' = "urlopen"
    /\ UNCHANGED <<sys_argv, events, channel, username, message, redirects, response,
                   response_data, response_json, exc, success, exit_code>>

Raise(e) ==
    /\ exc' = e
    /\ pc' = "except"

UrlopenSend ==
    /\ pc = "urlopen"
    /\ events' = Append(events, RequestEv(req))
    /\ pc' = "await"
    /\ UNCHANGED <<sys_argv, channel, username, message, json_data, req, redirects,
                   response, response_data, response_json, exc, success, exit_code>>

CurrentMethod == IF redirects = 0 THEN req.method ELSE "GET"

\* the connection cannot be made: urllib wraps the OSError in URLError
ConnectFails ==
    /\ pc = "await"
    /\ \E reason \in ConnectFailures :
          /\ events' = Append(events, ConnectFailedEv(reason))
          /\ Raise(Exc("URLError", 0, <<reason>>))
    /\ UNCHANGED <<sys_argv, channel, username, message, json_data, req,
                   redirects, response, response_data, response_json, success,
                   exit_code>>

\* the server closes the connection without an answer: http.client raises
ServerDrops ==
    /\ pc = "await"
    /\ Raise(Exc("RemoteDisconnected", 0,
                 <<"Remote end closed connection without response">>))
    /\ events' = Append(events, DroppedEv)
    /\ UNCHANGED <<sys_argv, channel, username, message, json_data, req,
                   redirects, response, response_data, response_json, success,
                   exit_code>>

ServerResponds ==
    /\ pc = "await"
    /\ \E head \in ResponseHeads :
       \E body \in BodiesFor(head.status) :
          LET answered == Append(events, ResponseEv(head, body))
          IN  IF Is2xx(head.status)
              THEN /\ response' = [status |-> head.status, location |-> head.location,
                                   body |-> body]
                   /\ events' = answered
                   /\ pc' = "read"
                   /\ UNCHANGED <<redirects, exc>>
              ELSE IF Redirects(CurrentMethod, head.status, head.location)
                      /\ redirects < MaxFollow
              THEN /\ events' = Append(answered, RequestEv(RedirectRequest(REDIRECT_TARGET)))
                   /\ redirects' = redirects + 1
                   /\ pc' = "await"
                   /\ UNCHANGED <<response, exc>>
              ELSE IF Redirects(CurrentMethod, head.status, head.location)
              THEN /\ events' = answered
                   /\ Raise(Exc("HTTPError", head.status,
                                <<REDIRECT_LOOP_MSG, ReasonPhrase(head.status)>>))
                   /\ UNCHANGED <<response, redirects>>
              ELSE /\ events' = answered
                   /\ Raise(Exc("HTTPError", head.status, <<ReasonPhrase(head.status)>>))
                   /\ UNCHANGED <<response, redirects>>
    /\ UNCHANGED <<sys_argv, channel, username, message, json_data, req,
                   response_data, response_json, success, exit_code>>

Read ==
    /\ pc = "read"
    /\ LET d == Utf8Decode(response.body)
       IN  IF d.ok
           THEN /\ response_data' = d.text
                /\ pc' = "loads"
                /\ UNCHANGED exc
           ELSE /\ Raise(Exc("UnicodeDecodeError", 0,
                             <<"'utf-8' codec can't decode byte">>))
                /\ UNCHANGED response_data
    /\ UNCHANGED <<sys_argv, events, channel, username, message, json_data, req,
                   redirects, response, response_json, success, exit_code>>

ParseResponse ==
    /\ pc = "loads"
    /\ LET r == Loads(response_data)
       IN  IF r.ok
           THEN /\ response_json' = r.val
                /\ pc' = "report"
                /\ UNCHANGED exc
           ELSE /\ Raise(Exc("JSONDecodeError", 0, <<"Expecting value">>))
                /\ UNCHANGED response_json
    /\ UNCHANGED <<sys_argv, events, channel, username, message, json_data, req,
                   redirects, response, response_data, success, exit_code>>

Report ==
    /\ pc = "report"
    /\ IF ~HasGet(response_json)
       THEN /\ Raise(Exc("AttributeError", 0, <<"object has no attribute 'get'">>))
            /\ UNCHANGED <<events, success>>
       ELSE IF Truthy(DictGet(response_json, K_success, JNull))
       THEN /\ events' = Append(events, PrintEv(SentLine(response_json)))
            /\ success' = TRUE
            /\ pc' = "return"
            /\ UNCHANGED exc
       ELSE /\ events' = Append(events, PrintEv(FailedLine(response_json)))
            /\ success' = FALSE
            /\ pc' = "return"
            /\ UNCHANGED exc
    /\ UNCHANGED <<sys_argv, channel, username, message, json_data, req, redirects,
                   response, response_data, response_json, exit_code>>

\* the except clauses sending the request again
ExceptRetrying ==
    /\ pc = "except"
    /\ \E lines \in {HandlerLines(Handler(exc.cls), exc)} :
          events' = events \o Prints(lines)
    /\ success' = FALSE
    /\ pc' = "urlopen"
    /\ UNCHANGED <<sys_argv, channel, username, message, json_data, req, redirects,
                   response, response_data, response_json, exc, exit_code>>

\* the except clauses; an exception none of them names leaves send_message
\* and main, and the interpreter ends the process with a traceback and status 1
Except ==
    /\ pc = "except"
    /\ \E clause \in {Handler(exc.cls)} :
          IF clause = ""
          THEN /\ events' = events \o <<TracebackEv(exc), ExitEv(1)>>
               /\ exit_code' = 1
               /\ pc' = "exited"
               /\ UNCHANGED success
          ELSE /\ \E lines \in {HandlerLines(clause, exc)} :
                      events' = events \o Prints(lines)
               /\ success' = FALSE
               /\ pc' = "return"
               /\ UNCHANGED exit_code
    /\ UNCHANGED <<sys_argv, channel, username, message, json_data, req, redirects,
                   response, response_data, response_json, exc>>

Next ==
    \/ Main
    \/ Prepare
    \/ UrlopenSend
    \/ ConnectFails
    \/ ServerDrops
    \/ ServerResponds
    \/ Read
    \/ ParseResponse
    \/ Report
    \/ Except
    \/ Exit

Spec == Init /\ [][Next]_vars

\* the transport answers or fails, and the interpreter keeps running the program
FairSpec == Spec /\ WF_vars(Next)

(***************************************************************************)
(* The request body for every triple of short strings                      *)
(***************************************************************************)
InitJson ==
    /\ \E lc \in 0..MaxPayloadChars, lu \in 0..MaxPayloadChars, lm \in 0..MaxPayloadChars :
          /\ lc + lu + lm <= MaxPayloadChars
          /\ \E c \in [1..lc -> Alphabet], u \in [1..lu -> Alphabet],
                m \in [1..lm -> Alphabet] :
                sys_argv = <<SCRIPT, c, u, m>>
    /\ Locals0

NextJson ==
    \/ Main
    \/ Prepare

SpecJson == InitJson /\ [][NextJson]_vars

(***************************************************************************)
(* What a run shows, read off the events                                   *)
(***************************************************************************)
Exited == pc = "exited"

OfType(ty) == SelectSeq(events, LAMBDA e : e.type = ty)

PrintedLines == [i \in 1..Len(OfType("print")) |-> OfType("print")[i].line]

\* the outcome lines: those that start with a success or failure marker
MarkedLines == SelectSeq(PrintedLines, LAMBDA l : l.marker # NO_MARK)

Requests == [i \in 1..Len(OfType("request")) |-> OfType("request")[i].req]

Posts == SelectSeq(Requests, LAMBDA r : r.method = "POST")

NetEvents ==
    SelectSeq(events,
              LAMBDA e : e.type \in {"request", "response", "connect_failed", "dropped"})

LastNet == NetEvents[Len(NetEvents)]

\* urlopen ended with an answer of the server (no request followed it)
Answered == NetEvents # <<>> /\ LastNet.type = "response"

Answered2xx == Answered /\ Is2xx(LastNet.head.status)

AnsweredNot2xx == Answered /\ ~Is2xx(LastNet.head.status)

\* the body read as UTF-8 text and then as JSON
BodyValue(body) ==
    LET d == Utf8Decode(body)
    IN  IF d.ok THEN Loads(d.text) ELSE ParseFail

Field(val, key) ==
    IF val.t = "dict" /\ ItemsHave(val.v, key)
    THEN [present |-> TRUE, val |-> ItemsGet(val.v, key, JNull)]
    ELSE [present |-> FALSE, val |-> JNull]

IsJsonTrue(f) == f.present /\ f.val.t = "bool" /\ f.val.v

IsJsonFalse(f) == f.present /\ f.val.t = "bool" /\ ~f.val.v

\* a value Python's `if` takes as true
IsTruthy(f) ==
    /\ f.present
    /\ \/ f.val.t = "bool" /\ f.val.v
       \/ f.val.t = "int" /\ f.val.v # 0
       \/ f.val.t \in {"str", "list", "dict"} /\ f.val.v # <<>>

UsageRun == Len(sys_argv) # 4

HasLine(marker, label) ==
    \E i \in 1..Len(PrintedLines) :
        /\ PrintedLines[i].marker = marker
        /\ PrintedLines[i].text # <<>>
        /\ PrintedLines[i].text[1] = label

HintPrinted ==
    \E i \in 1..Len(PrintedLines) : PrintedLines[i] = Line(NO_MARK, <<SERVER_HINT>>)

OneOutcome(marker, label) ==
    /\ Len(MarkedLines) = 1
    /\ MarkedLines[1].marker = marker
    /\ MarkedLines[1].text # <<>>
    /\ MarkedLines[1].text[1] = label

\* a run that ended in an error, of main or of send_message
ErrorRun == UsageRun \/ exc.cls # "none" \/ ~success

\* the outcome line the fields of a JSON value call for
ExpectedSent(val) ==
    Line(SUCCESS_MARK,
         IF Field(val, K_message).present
         THEN PyStr(Field(val, K_message).val) ELSE DEFAULT_SENT)

ExpectedFailed(val) ==
    Line(FAILURE_MARK,
         <<"Failed: ">> \o (IF Field(val, K_message).present
                            THEN PyStr(Field(val, K_message).val) ELSE DEFAULT_FAILED))

ReadsSuccess(val) ==
    /\ IsJsonTrue(Field(val, K_success)) =>
          /\ MarkedLines = <<ExpectedSent(val)>>
          /\ success
    /\ IsJsonFalse(Field(val, K_success)) \/ ~Field(val, K_success).present =>
          /\ MarkedLines = <<ExpectedFailed(val)>>
          /\ ~success

\* the one outcome line is the HTTP Error line of this status
HttpErrorLineFor(status) ==
    /\ Len(MarkedLines) = 1
    /\ MarkedLines[1].marker = FAILURE_MARK
    /\ LET text == MarkedLines[1].text
           head == <<"HTTP Error ">> \o IntStr(status) \o <<": ">>
       IN  /\ Len(text) > Len(head)
           /\ SubSeq(text, 1, Len(head)) = head
           /\ text[Len(text)] = ReasonPhrase(status)

IsOutcome(e) == e.type = "print" /\ e.line.marker # NO_MARK

IsPost(e) == e.type = "request" /\ e.req.method = "POST"

\* the exception is none of those the first three clauses name
OtherFailure == exc.cls \notin {"none", "HTTPError", "URLError", "JSONDecodeError"}

(***************************************************************************)
(* C1.  As claimed: the process exits 0 exactly when the server's answer   *)
(* is 2xx with a JSON body whose `success` field is true, and exits 1 in   *)
(* every other case.                                                       *)
(***************************************************************************)
C1_ExitZeroIffSuccessTrue ==
    Exited =>
        /\ exit_code \in {0, 1}
        /\ exit_code = 0 <=>
              /\ Answered2xx
              /\ BodyValue(LastNet.body).ok
              /\ IsJsonTrue(Field(BodyValue(LastNet.body).val, K_success))

(***************************************************************************)
(* C1, amended: the process exits 0 exactly when the answer is 2xx with a  *)
(* body that parses to a JSON object whose `success` member is truthy for  *)
(* Python (true, a number other than 0, a non-empty string, array or       *)
(* object), and exits 1 in every other case.                               *)
(***************************************************************************)
C1_ExitZeroIffSuccessTruthy ==
    Exited =>
        /\ exit_code \in {0, 1}
        /\ exit_code = 0 <=>
              /\ Answered2xx
              /\ BodyValue(LastNet.body).ok
              /\ IsTruthy(Field(BodyValue(LastNet.body).val, K_success))

C1_Witness ==
    /\ Exited
    /\ exit_code = 0
    /\ Answered2xx
    /\ Field(BodyValue(LastNet.body).val, K_success).val.t = "int"

(***************************************************************************)
(* C2.  With an argument count other than three, main prints the usage     *)
(* text and exits 1, and the run never issues an HTTP request.             *)
(***************************************************************************)
C2_UsageNoRequest ==
    UsageRun =>
        /\ pc \in {"main", "exited"}
        /\ Requests = <<>>
        /\ NetEvents = <<>>
        /\ Exited => /\ PrintedLines = UsageLines
                     /\ exit_code = 1
                     /\ events[Len(events)] = ExitEv(1)

C2_Witness == Exited /\ Len(sys_argv) = 5

(***************************************************************************)
(* C3.  As claimed: every error path, the usage error included, prints a   *)
(* line that starts with the failure marker and exits 1.                   *)
(***************************************************************************)
C3_EveryErrorMarked ==
    Exited /\ ErrorRun =>
        /\ \E i \in 1..Len(PrintedLines) : PrintedLines[i].marker = FAILURE_MARK
        /\ exit_code = 1

(***************************************************************************)
(* C3, amended: every error path of send_message (HTTP status, connection, *)
(* JSON decoding, unexpected, `success` false or absent) prints a line     *)
(* that starts with the failure marker and exits 1; the usage error exits  *)
(* 1 too but prints only the usage text, with no failure marker.           *)
(***************************************************************************)
C3_SendErrorsMarked ==
    Exited /\ ErrorRun =>
        /\ exit_code = 1
        /\ IF UsageRun
           THEN /\ MarkedLines = <<>>
                /\ PrintedLines = UsageLines
           ELSE /\ Len(MarkedLines) = 1
                /\ MarkedLines[1].marker = FAILURE_MARK
                /\ exc.cls = "HTTPError" => OneOutcome(FAILURE_MARK, "HTTP Error ")
                /\ exc.cls = "URLError" => OneOutcome(FAILURE_MARK, "Connection Error: ")
                /\ exc.cls = "JSONDecodeError" => OneOutcome(FAILURE_MARK, "JSON Error: ")
                /\ exc.cls \in {"UnicodeDecodeError", "AttributeError", "RemoteDisconnected"}
                      => OneOutcome(FAILURE_MARK, "Unexpected Error: ")
                /\ exc.cls = "none" => OneOutcome(FAILURE_MARK, "Failed: ")

C3_Witness ==
    /\ Exited
    /\ exc.cls = "none"
    /\ ~UsageRun
    /\ ~success

C5_UnparsableIsJsonError ==
    Exited /\ Answered2xx /\ ~BodyValue(LastNet.body).ok =>
        /\ OneOutcome(FAILURE_MARK, "JSON Error: ")
        /\ exit_code = 1

(***************************************************************************)
(* C5, amended: a 2xx answer whose body is valid UTF-8 text but not        *)
(* well-formed JSON is reported Failed on the "JSON Error" line; a body    *)
(* that is not valid UTF-8 is reported Failed on the "Unexpected Error"    *)
(* line; in both cases the process exits 1.                                *)
(***************************************************************************)
C5_MalformedTextIsJsonError ==
    Exited /\ Answered2xx /\ ~BodyValue(LastNet.body).ok =>
        /\ exit_code = 1
        /\ IF Utf8Decode(LastNet.body).ok
           THEN OneOutcome(FAILURE_MARK, "JSON Error: ")
           ELSE OneOutcome(FAILURE_MARK, "Unexpected Error: ")

C5_Witness ==
    /\ Exited
    /\ Answered2xx
    /\ Utf8Decode(LastNet.body).ok
    /\ ~BodyValue(LastNet.body).ok
    /\ exc.cls = "JSONDecodeError"

(***************************************************************************)
(* C6.  As claimed: whenever the server answers with a status that is not  *)
(* 2xx, the run reports Failed on the "HTTP Error" line with that status   *)
(* code and reason, never as a connection error with the server hint, and  *)
(* issues no further request.                                              *)
(***************************************************************************)
C6_EveryNon2xxIsHttpError ==
    \A i \in 1..Len(OfType("response")) :
        Exited /\ ~Is2xx(OfType("response")[i].head.status) =>
            /\ HttpErrorLineFor(OfType("response")[i].head.status)
            /\ ~HintPrinted
            /\ ~HasLine(FAILURE_MARK, "Connection Error: ")
            /\ Len(Requests) = 1

(***************************************************************************)
(* C6, amended: whenever the answer that ends the call is not 2xx, that    *)
(* is any status but 2xx and but a redirect the transport follows (301,    *)
(* 302 or 303 with a Location header, within the redirect limit), the run  *)
(* reports Failed on the "HTTP Error" line with that status code and       *)
(* reason, whatever the body, never as a connection error with the server  *)
(* hint, and the POST is not issued again.  A followed redirect is         *)
(* answered with one GET to its Location, whose outcome becomes the run's. *)
(***************************************************************************)
C6_FinalNon2xxIsHttpError ==
    /\ Len(Posts) <= 1
    /\ Len(Requests) = Len(Posts) + redirects
    /\ \A i \in 1..Len(Requests) : i > 1 => Requests[i] = RedirectRequest(REDIRECT_TARGET)
    /\ Exited /\ AnsweredNot2xx =>
          /\ HttpErrorLineFor(LastNet.head.status)
          /\ ~HintPrinted
          /\ ~HasLine(FAILURE_MARK, "Connection Error: ")
          /\ ~success

C6_Witness ==
    /\ Exited
    /\ AnsweredNot2xx
    /\ LastNet.head.status = 404
    /\ BodyValue(LastNet.body).ok
    /\ redirects = 0

(***************************************************************************)
(* C7.  Whenever the send fails at the connection level (the server is     *)
(* unreachable, the name does not resolve, the connection is refused or    *)
(* times out), the run reports Failed on the "Connection Error" line with  *)
(* the underlying error text, prints the hint that the server may not be   *)
(* running, and exits 1.                                                   *)
(***************************************************************************)
C7_ConnectionErrorHint ==
    Exited /\ NetEvents # <<>> /\ LastNet.type = "connect_failed" =>
        /\ MarkedLines = << Line(FAILURE_MARK, <<"Connection Error: ", LastNet.reason>>) >>
        /\ PrintedLines[Len(PrintedLines)] = Line(NO_MARK, <<SERVER_HINT>>)
        /\ exit_code = 1

C7_Witness ==
    /\ Exited
    /\ NetEvents # <<>>
    /\ LastNet.type = "connect_failed"
    /\ LastNet.reason = "[Errno 110] Connection timed out"

(***************************************************************************)
(* C8.  In a run with exactly three arguments the status line is printed   *)
(* first, then one HTTP POST is issued and never a second one, then one    *)
(* outcome line with a success or failure marker is printed, then the      *)
(* process exits: with 0 after the success marker, with 1 after the        *)
(* failure marker.                                                         *)
(***************************************************************************)
C8_OrderOfEvents ==
    ~UsageRun =>
        /\ events # <<>> =>
              events[1] = PrintEv(StatusLine(sys_argv[2], sys_argv[3], sys_argv[4]))
        /\ \A i \in 1..Len(events) : IsPost(events[i]) <=> i = 2
        /\ \A i \in 1..Len(events) : IsOutcome(events[i]) => i > 2
        /\ Len(MarkedLines) <= 1
        /\ \A i \in 1..Len(events) : events[i].type = "exit" => i = Len(events) /\ Exited
        /\ pc = "return" => Len(MarkedLines) = 1
        /\ Exited =>
              /\ Len(Posts) = 1
              /\ Len(MarkedLines) = 1
              /\ events[Len(events)].type = "exit"
              /\ events[Len(events)].code = exit_code
              /\ exit_code = (IF MarkedLines[1].marker = SUCCESS_MARK THEN 0 ELSE 1)

C8_Witness ==
    /\ ~UsageRun
    /\ Exited
    /\ exit_code = 1
    /\ exc.cls = "URLError"

(***************************************************************************)
(* C9.  For every triple of non-empty strings the request body is a JSON   *)
(* object with exactly the keys channel, username and message, and read    *)
(* back as JSON it gives the three inputs unchanged.                       *)
(***************************************************************************)
C9_BodyRoundTrip ==
    /\ pc = "urlopen"
    /\ sys_argv[2] # <<>> /\ sys_argv[3] # <<>> /\ sys_argv[4] # <<>>
    => LET back == BodyValue(req.data)
       IN  /\ req.data = json_data
           /\ back.ok
           /\ back.val.t = "dict"
           /\ Len(back.val.v) = 3
           /\ Field(back.val, K_channel) = [present |-> TRUE, val |-> JStr(sys_argv[2])]
           /\ Field(back.val, K_username) = [present |-> TRUE, val |-> JStr(sys_argv[3])]
           /\ Field(back.val, K_message) = [present |-> TRUE, val |-> JStr(sys_argv[4])]

C9_Witness ==
    /\ pc = "urlopen"
    /\ sys_argv[2] = <<" ">>
    /\ sys_argv[3] = <<E_ACUTE>>
    /\ sys_argv[4] = <<BACKSLASH, QUOTE>>
    /\ BodyValue(req.data).ok

(***************************************************************************)
(* C10.  Every run ends, once the HTTP call has returned or failed, with   *)
(* exit code 0 or 1.  A failure of the send attempt that is neither an     *)
(* HTTP status error, a connection error nor a JSON decode error is caught *)
(* inside send_message and reported Failed on the "Unexpected Error" line: *)
(* no exception leaves send_message and no traceback is shown.             *)
(***************************************************************************)
C10_TerminatesCleanly ==
    /\ <>Exited
    /\ [](Exited =>
            /\ exit_code \in {0, 1}
            /\ OfType("traceback") = <<>>
            /\ OtherFailure =>
                  /\ OneOutcome(FAILURE_MARK, "Unexpected Error: ")
                  /\ ~success
                  /\ exit_code = 1)

C10_Witness ==
    /\ Exited
    /\ exc.cls = "RemoteDisconnected"
    /\ OfType("traceback") = <<>>

====
